---- MODULE Spec2Model ----
(***************************************************************************)
(* Model of the two consistency scripts of chemfiles.rs:                   *)
(*   scripts/check-binding.py        header-vs-binding check               *)
(*   scripts/check-used-functions.py binding-vs-usage check                *)
(*                                                                         *)
(* Text is modelled at the level the scripts look at it.  A line is a      *)
(* sequence of tokens; a token is a piece of text that the scripts never   *)
(* look inside: the tracked prefix chfl_, the open marker of a linkage     *)
(* block, single characters, and words made of identifier                 *)
(* characters.  A name is the sequence of tokens of its raw text, so two   *)
(* names are equal exactly when their raw texts are.  The line terminator  *)
(* is left out of a line: it is white space to str.split, it is outside    *)
(* the character class of the pattern, and it plays no part in a           *)
(* substring test.                                                         *)
(***************************************************************************)
EXTENDS Naturals, Sequences, FiniteSets

VARIABLES
    script,             \* which of the two scripts is running
    pc,                 \* position in the script's __main__
    functions,          \* check-binding: a set; check-used-functions: a list
    current_functions,  \* check-binding: the set read from the bindgen dump
    binding_functions,  \* check-used-functions: the set found in src/
    dump,               \* check-binding: the lines of result.stdout
    tool,               \* check-binding: how the bindgen subprocess ended
    todo,               \* check-binding: what the running for loop has left
    idx,                \* check-used-functions: index of the for loop
    ERROR,              \* the module-level flag
    out,                \* what print() wrote, in order
    exit,               \* the process exit status, "none" while running
    lines,              \* the text handed to the extractors
    ran,                \* which extractors have been applied to lines
    res_binding,        \* functions_list of check-binding.py on lines
    res_header,         \* the scan of read_current_function_list on lines
    res_used            \* functions_list of check-used-functions.py on lines

vars == <<script, pc, functions, current_functions, binding_functions, dump,
          tool, todo, idx, ERROR, out, exit,
          lines, ran, res_binding, res_header, res_used>>

progVars == <<script, pc, functions, current_functions, binding_functions,
              dump, tool, todo, idx, ERROR, out, exit>>

extractVars == <<lines, ran, res_binding, res_header, res_used>>

----------------------------------------------------------------------------
(* Bounds *)

\* longest text, in lines, handed to an extractor
MaxLines == 3

\* longest bindgen dump, in lines, of a modelled run of check-binding.py
MaxDumpLines == 3

\* most line breaks put inside one declaration
MaxCuts == 2

----------------------------------------------------------------------------
(* Tokens and lines *)

\* the open marker of a linkage block, as both scripts spell it
ExternOpen == "extern \"C\" {"

\* the close marker
CloseBrace == "}"

\* the tracked prefix the pattern starts with
Prefix == "chfl_"

\* a token all of whose characters are in the class [a-z A-Z 0-9 _] of the
\* pattern (the class holds the space too)
InClass(t) == t \in {Prefix, "a", "b", "x", "y", "T", "pub", "fn", "type", " "}

\* white space to str.split()
IsSpace(t) == t = " "

\* <needle> in <line>, for a needle that is one token
Contains(line, t) == \E i \in 1..Len(line) : line[i] = t

Open == <<ExternOpen>>
OpenIndented == <<" ", ExternOpen>>
Close == <<CloseBrace>>
CommentBrace == <<"//", " ", CloseBrace>>
DeclA == <<"pub", " ", "fn", " ", Prefix, "a", "(", "x", ")", ";">>
DeclB == <<" ", "pub", " ", "fn", " ", Prefix, "b", "(", ")", ";">>
DeclASpace == <<"pub", " ", "fn", " ", Prefix, " ", "a", "(", "x", ")", ";">>
DeclAB == <<"pub", " ", "fn", " ", Prefix, "a", "(", ")", ";", " ",
            "pub", " ", "fn", " ", Prefix, "b", "(", ")", ";">>
DeclLong == <<"pub", " ", "fn", " ", Prefix, "a", "(", "x", " ", "y", " ",
              "x", " ", "y", ")", ";">>
Blank == <<>>
Comment == <<"//", " ", "x", " ", "y">>
Unrelated == <<"pub", " ", "type", " ", "T", ";">>

NameA == <<Prefix, "a">>
NameB == <<Prefix, "b">>
NameASpace == <<Prefix, " ", "a">>

LineSet == {Open, OpenIndented, Close, CommentBrace, DeclA, DeclB, DeclASpace,
            DeclAB, Blank, Comment, Unrelated}

\* every text of at most n lines
RECURSIVE Texts(_)
Texts(n) ==
    IF n = 0 THEN {<<>>}
    ELSE LET shorter == Texts(n - 1)
         IN  shorter \cup {Append(t, l) : t \in {s \in shorter : Len(s) = n - 1},
                                          l \in LineSet}

----------------------------------------------------------------------------
(* re.findall of the pattern: the prefix chfl_, then any run of characters    *)
(* of the class [a-z A-Z 0-9 _], captured together, then an open parenthesis *)

\* the first index from i on whose token is outside the class
RECURSIVE RunEnd(_, _)
RunEnd(line, i) ==
    IF i > Len(line) THEN i
    ELSE IF InClass(line[i]) THEN RunEnd(line, i + 1)
    ELSE i

\* the groups of the non-overlapping matches found from index i on, as a set.
\* The class holds no "(", so the greedy run is the only candidate: a shorter
\* run is followed by a class character, never by "(".
RECURSIVE FindAllFrom(_, _)
FindAllFrom(line, i) ==
    IF i > Len(line) THEN {}
    ELSE IF line[i] = Prefix
         THEN LET j == RunEnd(line, i + 1)
              IN  IF j <= Len(line) /\ line[j] = "("
                  THEN {SubSeq(line, i, j - 1)} \cup FindAllFrom(line, j + 1)
                  ELSE FindAllFrom(line, i + 1)
         ELSE FindAllFrom(line, i + 1)

\* variant: the spaces are dropped from every name found
FindAll_Normalizing(line) ==
    {SelectSeq(n, LAMBDA t : ~IsSpace(t)) : n \in FindAllFrom(line, 1)}

\* re.findall on one line
FindAll(line) == FindAllFrom(line, 1)

----------------------------------------------------------------------------
(* line.split()[2].split('(')[0] *)

\* the words of str.split(): the maximal runs of tokens that are not space
RECURSIVE SplitFrom(_, _, _)
SplitFrom(line, i, word) ==
    IF i > Len(line)
    THEN IF word = <<>> THEN <<>> ELSE <<word>>
    ELSE IF IsSpace(line[i])
         THEN IF word = <<>> THEN SplitFrom(line, i + 1, <<>>)
              ELSE <<word>> \o SplitFrom(line, i + 1, <<>>)
         ELSE SplitFrom(line, i + 1, Append(word, line[i]))

Split(line) == SplitFrom(line, 1, <<>>)

\* word.split('(')[0]: what stands before the first "(" of the word
RECURSIVE BeforeParen(_)
BeforeParen(word) ==
    IF word = <<>> \/ Head(word) = "(" THEN <<>>
    ELSE <<Head(word)>> \o BeforeParen(Tail(word))

\* variant: index 1 in place of index 2
PositionalName_SecondWord(line) == BeforeParen(Split(line)[2])

\* the name check-used-functions.py takes from a line of at least three words
PositionalName(line) == BeforeParen(Split(line)[3])

----------------------------------------------------------------------------
(* The three scans.  A scan state holds the extern flag, the names          *)
(* collected, whether an exception was raised, and (for the claims only)    *)
(* for each line read whether it reached the body of the last if.           *)

ScanInit(empty) ==
    [extern |-> FALSE, names |-> empty, raised |-> FALSE, inside |-> <<>>]

Skip(st, ext) == [st EXCEPT !.extern = ext, !.inside = Append(@, FALSE)]

\* variant: the test for the close brace is left out
functions_list_step_NeverCloses(st, line) ==
    IF Contains(line, ExternOpen) THEN Skip(st, TRUE)
    ELSE IF st.extern
         THEN [st EXCEPT !.names = @ \cup FindAll(line),
                         !.inside = Append(@, TRUE)]
         ELSE Skip(st, FALSE)

\* one turn of the for loop of functions_list, check-binding.py
functions_list_step(st, line) ==
    IF Contains(line, ExternOpen) THEN Skip(st, TRUE)
    ELSE IF st.extern /\ Contains(line, CloseBrace) THEN Skip(st, FALSE)
    ELSE IF st.extern
         THEN [st EXCEPT !.names = @ \cup FindAll(line),
                         !.inside = Append(@, TRUE)]
         ELSE Skip(st, FALSE)

\* variant: the flag is not consulted, as if it started out true
read_current_step_StartsInside(st, line) ==
    IF line = <<ExternOpen>> THEN Skip(st, TRUE)
    ELSE IF line = <<CloseBrace>> THEN Skip(st, FALSE)
    ELSE [st EXCEPT !.names = @ \cup FindAll(line),
                    !.inside = Append(@, TRUE)]

\* one turn of the for loop of read_current_function_list
read_current_step(st, line) ==
    IF line = <<ExternOpen>> THEN Skip(st, TRUE)
    ELSE IF st.extern /\ line = <<CloseBrace>> THEN Skip(st, FALSE)
    ELSE IF st.extern
         THEN [st EXCEPT !.names = @ \cup FindAll(line),
                         !.inside = Append(@, TRUE)]
         ELSE Skip(st, FALSE)

\* variant: a line of fewer than three words is passed over
functions_list_used_step_SkipsShort(st, line) ==
    IF Contains(line, ExternOpen) THEN Skip(st, TRUE)
    ELSE IF st.extern /\ Contains(line, CloseBrace) THEN Skip(st, FALSE)
    ELSE IF st.extern /\ Len(Split(line)) >= 3
         THEN [st EXCEPT !.names = Append(@, PositionalName(line)),
                         !.inside = Append(@, TRUE)]
         ELSE Skip(st, st.extern)

\* one turn of the for loop of functions_list, check-used-functions.py;
\* line.split()[2] raises IndexError on a line of fewer than three words,
\* and the exception ends the loop
functions_list_used_step(st, line) ==
    IF st.raised THEN st
    ELSE IF Contains(line, ExternOpen) THEN Skip(st, TRUE)
    ELSE IF st.extern /\ Contains(line, CloseBrace) THEN Skip(st, FALSE)
    ELSE IF st.extern
         THEN IF Len(Split(line)) < 3
              THEN [st EXCEPT !.raised = TRUE, !.inside = Append(@, TRUE)]
              ELSE [st EXCEPT !.names = Append(@, PositionalName(line)),
                              !.inside = Append(@, TRUE)]
         ELSE Skip(st, FALSE)

\* the for loop of functions_list, check-binding.py
RECURSIVE functions_list_loop(_, _)
functions_list_loop(st, text) ==
    IF text = <<>> THEN st
    ELSE functions_list_loop(functions_list_step(st, Head(text)), Tail(text))

\* the for loop of read_current_function_list
RECURSIVE read_current_loop(_, _)
read_current_loop(st, text) ==
    IF text = <<>> THEN st
    ELSE read_current_loop(read_current_step(st, Head(text)), Tail(text))

\* the for loop of functions_list, check-used-functions.py
RECURSIVE functions_list_used_loop(_, _)
functions_list_used_loop(st, text) ==
    IF text = <<>> THEN st
    ELSE functions_list_used_loop(functions_list_used_step(st, Head(text)),
                                  Tail(text))

\* functions_list of check-binding.py on the lines of lib.rs
functions_list(text) == functions_list_loop(ScanInit({}), text)

\* the loop of read_current_function_list on the lines of the dump
read_current_function_list(text) == read_current_loop(ScanInit({}), text)

\* functions_list of check-used-functions.py on the lines of lib.rs
functions_list_used(text) == functions_list_used_loop(ScanInit(<<>>), text)

Range(s) == {s[i] : i \in 1..Len(s)}

----------------------------------------------------------------------------
(* The extractors as functions of their input: the text is drawn at the     *)
(* start and each extractor is applied to it.                               *)

\* the declarations that are cut into several lines
SplitDecls == {DeclA, DeclB, DeclLong}

\* the places where declaration d can be cut: after its k-th token
CutSets(d) ==
    {c \in SUBSET (1..(Len(d) - 1)) : Cardinality(c) \in 1..MaxCuts}

\* the fragments of d cut after each position of cuts, from token from on
RECURSIVE Fragments(_, _, _)
Fragments(d, cuts, from) ==
    IF \A k \in cuts : k < from THEN <<SubSeq(d, from, Len(d))>>
    ELSE LET k == CHOOSE k \in cuts :
                      k >= from /\ \A m \in cuts : m >= from => k <= m
         IN  <<SubSeq(d, from, k)>> \o Fragments(d, cuts, k + 1)

\* a linkage block holding nothing but the fragments of d
SplitText(d, cuts) == <<Open>> \o Fragments(d, cuts, 1) \o <<Close>>

\* every cut declaration with the text it gives
SplitCases ==
    UNION {{[decl |-> d, cuts |-> c, text |-> SplitText(d, c)] :
                c \in CutSets(d)} : d \in SplitDecls}

SplitTexts == {s.text : s \in SplitCases}

ExtractInputs == Texts(MaxLines) \cup SplitTexts

NotRun == ScanInit({})

ExtractInit ==
    /\ lines \in ExtractInputs
    /\ ran = {}
    /\ res_binding = NotRun
    /\ res_header = NotRun
    /\ res_used = ScanInit(<<>>)
    /\ script = "none" /\ pc = "none" /\ functions = {}
    /\ current_functions = {} /\ binding_functions = {} /\ dump = <<>>
    /\ tool = "none" /\ todo = {} /\ idx = 0 /\ ERROR = FALSE
    /\ out = <<>> /\ exit = "none"

ApplyFunctionsList ==
    /\ "binding" \notin ran
    /\ ran' = ran \cup {"binding"}
    /\ res_binding' = functions_list(lines)
    /\ UNCHANGED <<lines, res_header, res_used, progVars>>

ApplyReadCurrentFunctionList ==
    /\ "header" \notin ran
    /\ ran' = ran \cup {"header"}
    /\ res_header' = read_current_function_list(lines)
    /\ UNCHANGED <<lines, res_binding, res_used, progVars>>

ApplyFunctionsListUsed ==
    /\ "used" \notin ran
    /\ ran' = ran \cup {"used"}
    /\ res_used' = functions_list_used(lines)
    /\ UNCHANGED <<lines, res_binding, res_header, progVars>>

ExtractNext ==
    \/ ApplyFunctionsList
    \/ ApplyReadCurrentFunctionList
    \/ ApplyFunctionsListUsed

SpecExtract == ExtractInit /\ [][ExtractNext]_vars

----------------------------------------------------------------------------
(* The two scripts.  Each __main__ runs its calls in order; pc names the    *)
(* call that is next.  An uncaught exception ends the process with exit     *)
(* status 1 and pc = "aborted".                                             *)

CB == "check-binding"
CU == "check-used-functions"

\* error(message): print the message and set the flag.  A message is kept as
\* its kind and its name instead of their concatenation.
error(kind, name) ==
    /\ out' = Append(out, [kind |-> kind, name |-> name])
    /\ ERROR' = TRUE

\* variant: the difference taken the other way round
missing_functions_Swapped(fs, cur) == fs \ cur

\* check-binding.py, check_functions: the two differences
missing_functions(fs, cur) == cur \ fs

deprecated_functions(fs, cur) == fs \ cur

\* read_all_binding_functions: findall on the whole text of every file under
\* src/; the class of the pattern holds no line terminator, so a match lies
\* within one line
read_all_binding_functions(text) == UNION {FindAll(text[i]) : i \in 1..Len(text)}

\* variant: the flag is not read
exit_status_Always0(flag) == 0

\* the exit status __main__ ends with: sys.exit(1) or falling off the end
exit_status(flag) == IF flag THEN 1 ELSE 0

Init ==
    /\ script \in {CB, CU}
    /\ pc = "functions_list"
    /\ functions = IF script = CB THEN {} ELSE <<>>
    /\ current_functions = {}
    /\ binding_functions = {}
    /\ dump = <<>>
    /\ tool = "none"
    /\ todo = {}
    /\ idx = 1
    /\ ERROR = FALSE
    /\ out = <<>>
    /\ exit = "none"
    /\ lines = <<>> /\ ran = {}
    /\ res_binding = NotRun /\ res_header = NotRun
    /\ res_used = ScanInit(<<>>)

\* check-binding.py: functions = functions_list()
Binding_functions_list ==
    /\ script = CB /\ pc = "functions_list"
    /\ \E librs \in Texts(MaxLines) :
           functions' = functions_list(librs).names
    /\ pc' = "read_current_function_list"
    /\ UNCHANGED <<script, current_functions, binding_functions, dump, tool,
                   todo, idx, ERROR, out, exit, extractVars>>

\* subprocess.run cannot find bindgen: FileNotFoundError, not caught
Binding_bindgen_not_found ==
    /\ script = CB /\ pc = "read_current_function_list"
    /\ tool' = "notfound"
    /\ pc' = "aborted"
    /\ exit' = 1
    /\ UNCHANGED <<script, functions, current_functions, binding_functions,
                   dump, todo, idx, ERROR, out, extractVars>>

\* current_functions = read_current_function_list(): bindgen ran and ended
\* with status 0 or with another status; run() is called without check=True
\* and result.returncode is never read, so whatever it wrote is scanned
Binding_read_current_function_list ==
    /\ script = CB /\ pc = "read_current_function_list"
    /\ \E status \in {"ok", "nonzero"}, stdout \in Texts(MaxDumpLines) :
           /\ tool' = status
           /\ dump' = stdout
           /\ current_functions' = read_current_function_list(stdout).names
    /\ pc' = "check_functions"
    /\ UNCHANGED <<script, functions, binding_functions, todo, idx, ERROR,
                   out, exit, extractVars>>

\* check_functions(functions, current_functions), up to the first loop
Binding_check_functions ==
    /\ script = CB /\ pc = "check_functions"
    /\ todo' = missing_functions(functions, current_functions)
    /\ pc' = "missing_loop"
    /\ UNCHANGED <<script, functions, current_functions, binding_functions,
                   dump, tool, idx, ERROR, out, exit, extractVars>>

\* one turn of: for function in missing_functions (a set, in any order)
Binding_report_missing ==
    /\ script = CB /\ pc = "missing_loop"
    /\ \E function \in todo :
           /\ error("Missing", function)
           /\ todo' = todo \ {function}
    /\ UNCHANGED <<script, pc, functions, current_functions,
                   binding_functions, dump, tool, idx, exit, extractVars>>

\* the first loop is over
Binding_missing_done ==
    /\ script = CB /\ pc = "missing_loop" /\ todo = {}
    /\ todo' = deprecated_functions(functions, current_functions)
    /\ pc' = "deprecated_loop"
    /\ UNCHANGED <<script, functions, current_functions, binding_functions,
                   dump, tool, idx, ERROR, out, exit, extractVars>>

\* one turn of: for function in deprecated_functions
Binding_report_deprecated ==
    /\ script = CB /\ pc = "deprecated_loop"
    /\ \E function \in todo :
           /\ error("Deprecated", function)
           /\ todo' = todo \ {function}
    /\ UNCHANGED <<script, pc, functions, current_functions,
                   binding_functions, dump, tool, idx, exit, extractVars>>

\* the second loop is over: check_functions returns
Binding_deprecated_done ==
    /\ script = CB /\ pc = "deprecated_loop" /\ todo = {}
    /\ pc' = "exit"
    /\ UNCHANGED <<script, functions, current_functions, binding_functions,
                   dump, tool, todo, idx, ERROR, out, exit, extractVars>>

\* check-used-functions.py: functions = functions_list()
Used_functions_list ==
    /\ script = CU /\ pc = "functions_list"
    /\ \E librs \in Texts(MaxLines) :
           LET r == functions_list_used(librs)
           IN  IF r.raised
               THEN /\ pc' = "aborted"
                    /\ exit' = 1
                    /\ UNCHANGED functions
               ELSE /\ pc' = "read_all_binding_functions"
                    /\ functions' = r.names
                    /\ UNCHANGED exit
    /\ UNCHANGED <<script, current_functions, binding_functions, dump, tool,
                   todo, idx, ERROR, out, extractVars>>

\* binding_functions = read_all_binding_functions()
Used_read_all_binding_functions ==
    /\ script = CU /\ pc = "read_all_binding_functions"
    /\ \E src \in Texts(MaxLines) :
           binding_functions' = read_all_binding_functions(src)
    /\ pc' = "check_functions"
    /\ UNCHANGED <<script, functions, current_functions, dump, tool, todo,
                   idx, ERROR, out, exit, extractVars>>

\* one turn of: for function in functions (a list, in its order)
Used_check_functions_step ==
    /\ script = CU /\ pc = "check_functions" /\ idx <= Len(functions)
    /\ IF functions[idx] \notin binding_functions
       THEN error("Missing", functions[idx])
       ELSE UNCHANGED <<ERROR, out>>
    /\ idx' = idx + 1
    /\ UNCHANGED <<script, pc, functions, current_functions,
                   binding_functions, dump, tool, todo, exit, extractVars>>

\* the loop is over: check_functions returns
Used_check_functions_done ==
    /\ script = CU /\ pc = "check_functions" /\ idx > Len(functions)
    /\ pc' = "exit"
    /\ UNCHANGED <<script, functions, current_functions, binding_functions,
                   dump, tool, todo, idx, ERROR, out, exit, extractVars>>

\* both scripts: if ERROR: sys.exit(1)
Main_exit ==
    /\ pc = "exit"
    /\ exit' = exit_status(ERROR)
    /\ pc' = "done"
    /\ UNCHANGED <<script, functions, current_functions, binding_functions,
                   dump, tool, todo, idx, ERROR, out, extractVars>>

Next ==
    \/ Binding_functions_list
    \/ Binding_bindgen_not_found
    \/ Binding_read_current_function_list
    \/ Binding_check_functions
    \/ Binding_report_missing
    \/ Binding_missing_done
    \/ Binding_report_deprecated
    \/ Binding_deprecated_done
    \/ Used_functions_list
    \/ Used_read_all_binding_functions
    \/ Used_check_functions_step
    \/ Used_check_functions_done
    \/ Main_exit

Spec == Init /\ [][Next]_vars

----------------------------------------------------------------------------
(* Claims *)

\* how many lines of the given kind and name were printed
Count(kind, name) ==
    Cardinality({i \in 1..Len(out) : out[i] = [kind |-> kind, name |-> name]})

\* the names that occur in what was printed
Printed == {out[i].name : i \in 1..Len(out)}

\* C1: when check_functions of check-binding.py has run, each name of
\* current_functions \ functions was printed once as Missing, each name of
\* functions \ current_functions once as Deprecated, and nothing else was
\* printed.
C1_HeaderVsBinding ==
    (script = CB /\ pc \in {"exit", "done"}) =>
        /\ \A i \in 1..Len(out) : out[i].kind \in {"Missing", "Deprecated"}
        /\ \A n \in functions \cup current_functions \cup Printed :
               /\ Count("Missing", n) =
                      IF n \in current_functions /\ n \notin functions
                      THEN 1 ELSE 0
               /\ Count("Deprecated", n) =
                      IF n \in functions /\ n \notin current_functions
                      THEN 1 ELSE 0

\* a finished run of check-binding.py that printed a Missing and a Deprecated
\* line and left a common name unreported
C1_Witness ==
    /\ script = CB /\ pc = "done"
    /\ functions \ current_functions # {}
    /\ current_functions \ functions # {}
    /\ functions \cap current_functions # {}

\* C2: in both scripts ERROR starts false, is true exactly when a finding was
\* printed, is never reset, and a run that reaches the end of __main__ exits
\* with status 1 if a finding was printed and with status 0 otherwise.
C2_ExitStatus ==
    /\ ERROR = FALSE
    /\ [](ERROR <=> out # <<>>)
    /\ [](pc = "done" => exit = (IF out # <<>> THEN 1 ELSE 0))
    /\ [][ERROR => ERROR']_vars

\* a finished run of check-used-functions.py that printed two findings
C2_Witness ==
    script = CU /\ pc = "done" /\ exit = 1 /\ Len(out) = 2 /\ ERROR

\* C3: when bindgen is not found or exits with a nonzero status the run is
\* aborted: check_functions does not run and nothing is printed.
C3_ToolFailureAborts ==
    (script = CB /\ tool \in {"notfound", "nonzero"}) =>
        /\ pc \notin {"missing_loop", "deprecated_loop", "exit", "done"}
        /\ out = <<>>

\* no line of the text is the open marker
NoLinkageBlock(text) == \A i \in 1..Len(text) : text[i] # Open

\* C4, as stated: a dump without a linkage block gives the empty header set,
\* and every name of the binding file is then printed as Missing.
C4_EverythingMissing ==
    (script = CB /\ pc = "done" /\ NoLinkageBlock(dump)) =>
        /\ current_functions = {}
        /\ \A n \in functions : Count("Missing", n) = 1

\* C4, amended: a dump without a linkage block gives the empty header set,
\* and every name of the binding file is then printed once as Deprecated;
\* no Missing line is printed.
C4_EverythingDeprecated ==
    (script = CB /\ pc = "done" /\ NoLinkageBlock(dump)) =>
        /\ current_functions = {}
        /\ \A n \in functions : Count("Deprecated", n) = 1
        /\ \A i \in 1..Len(out) : out[i].kind = "Deprecated"

\* a finished run whose dump holds declarations but no open marker, with two
\* names declared in the binding file
C4_Witness ==
    /\ script = CB /\ pc = "done" /\ tool = "ok"
    /\ NoLinkageBlock(dump)
    /\ \E i \in 1..Len(dump) : FindAll(dump[i]) # {}
    /\ Cardinality(functions) = 2
    /\ Len(out) = 2

\* C5: check-used-functions.py prints one Missing line for each distinct
\* declared name that is not in the usage set, however often it is declared,
\* and none for a name that is in it.
C5_DuplicatesCollapse ==
    (script = CU /\ pc = "done") =>
        \A n \in Range(functions) \cup Printed :
            Count("Missing", n) = IF n \notin binding_functions THEN 1 ELSE 0

\* the lines that match nothing: a blank line, comments, a declaration of
\* something else
NoiseLines == {Blank, Comment, CommentBrace, Unrelated}

\* the text without its noise lines
Strip(text) == SelectSeq(text, LAMBDA l : l \notin NoiseLines)

\* C6: noise lines put between the lines of a text raise no error in any of
\* the three extractors and leave the extracted names as they are without
\* them.
C6_NoiseIgnored ==
    /\ "binding" \in ran =>
           res_binding.names = functions_list(Strip(lines)).names
    /\ "header" \in ran =>
           res_header.names = read_current_function_list(Strip(lines)).names
    /\ ("used" \in ran /\ ~functions_list_used(Strip(lines)).raised) =>
           /\ ~res_used.raised
           /\ res_used.names = functions_list_used(Strip(lines)).names

MarkersAlone(text) ==
    \A i \in 1..Len(text) :
        /\ Contains(text[i], ExternOpen) => text[i] = Open
        /\ Contains(text[i], CloseBrace) => text[i] = Close

\* line i turns the flag of functions_list on / off
Opens(text, i) == Contains(text[i], ExternOpen)
Closes(text, i) == Contains(text[i], CloseBrace) /\ ~Opens(text, i)

\* the flag of functions_list after line k, said without the loop: some line
\* up to k holds the open marker and no later line up to k closes
ExternAfter(text, k) ==
    \E j \in 1..k : Opens(text, j) /\ \A m \in (j + 1)..k : ~Closes(text, m)

WellFormed(line) ==
    LET w == Split(line)
    IN  /\ Len(w) >= 3
        /\ \A i \in 1..2 : \A j \in 1..Len(w[i]) : InClass(w[i][j])
        /\ Head(w[3]) = Prefix
        /\ Contains(w[3], "(")
        /\ \A j \in 1..Len(BeforeParen(w[3])) : InClass(w[3][j])
        /\ Cardinality({j \in 1..Len(line) : line[j] = Prefix}) = 1
        /\ line[Len(line)] = ";"

\* C8: when every line inside the block is a well-formed declaration of a
\* tracked name, the third-word extractor raises nothing and gives the names
\* the pattern gives.
C8_StrategiesAgree ==
    ({"binding", "used"} \subseteq ran
        /\ \A i \in 1..Len(lines) :
               res_binding.inside[i] => WellFormed(lines[i])) =>
        /\ ~res_used.raised
        /\ Range(res_used.names) = res_binding.names

\* both extractors ran on a block of two well-formed declarations
C8_Witness ==
    /\ {"binding", "used"} \subseteq ran
    /\ \A i \in 1..Len(lines) : res_binding.inside[i] => WellFormed(lines[i])
    /\ res_used.names = <<NameA, NameB>>
    /\ res_binding.names = {NameA, NameB}

\* the position of the first token t of line
First(line, t) == CHOOSE i \in 1..Len(line) :
                      line[i] = t /\ \A j \in 1..(i - 1) : line[j] # t

\* no cut falls between the prefix of the name and its open parenthesis
NameKept(d, cuts) ==
    \A k \in cuts : k < First(d, Prefix) \/ k >= First(d, "(")

\* C9, as stated: a declaration cut into several lines adds no name and
\* raises no error, in both extractors of the binding file, wherever the cuts
\* fall.
C9_SplitContributesNothing ==
    \A s \in SplitCases :
        lines = s.text =>
            /\ "binding" \in ran => res_binding.names = {}
            /\ "used" \in ran => (~res_used.raised /\ res_used.names = <<>>)

\* C9, amended: each line is scanned on its own.  functions_list of
\* check-binding.py adds the name of a cut declaration exactly when no cut
\* falls between the prefix of the name and its open parenthesis, and raises
\* nothing; functions_list of check-used-functions.py raises IndexError when
\* a fragment has fewer than three words and otherwise adds one entry for
\* every fragment.
C9_SplitScannedLineByLine ==
    \A s \in SplitCases :
        lines = s.text =>
            LET frags == Fragments(s.decl, s.cuts, 1)
            IN  /\ "binding" \in ran =>
                       /\ ~res_binding.raised
                       /\ res_binding.names =
                              IF NameKept(s.decl, s.cuts)
                              THEN FindAll(s.decl) ELSE {}
                /\ "used" \in ran =>
                       /\ res_used.raised <=>
                              \E i \in 1..Len(frags) : Len(Split(frags[i])) < 3
                       /\ ~res_used.raised =>
                              Len(res_used.names) = Len(frags)

\* both extractors ran on a declaration cut right after its open
\* parenthesis: the pattern found the name, and the third-word extractor
\* added an entry for each of the two fragments
C9_Witness ==
    /\ {"binding", "used"} \subseteq ran
    /\ lines = SplitText(DeclLong, {7})
    /\ res_binding.names = {NameA}
    /\ ~res_used.raised
    /\ res_used.names = <<NameA, <<"x">>>>

\* the name without its spaces
Squeeze(n) == SelectSeq(n, LAMBDA t : ~IsSpace(t))

\* C10: the pattern keeps the spaces of a name, so a declaration with a space
\* inside the name gives a name of its own; and when the dump gives one
\* spelling and the binding file another spelling of the same name, the first
\* is printed once as Missing and the second once as Deprecated.
C10_RawTextNames ==
    (script = CB /\ pc = "done") =>
        /\ \A i \in 1..(Len(dump) - 1) :
               (dump[i] = Open /\ dump[i + 1] = DeclASpace) =>
                   (NameASpace \in current_functions /\ NameASpace # NameA)
        /\ \A n1 \in current_functions \ functions :
               \A n2 \in functions \ current_functions :
                   Squeeze(n1) = Squeeze(n2) =>
                       /\ Count("Missing", n1) = 1
                       /\ Count("Deprecated", n2) = 1

\* a finished run where the dump spells the name with a space and the binding
\* file without
C10_Witness ==
    /\ script = CB /\ pc = "done"
    /\ NameASpace \in current_functions /\ NameASpace \notin functions
    /\ NameA \in functions /\ NameA \notin current_functions
    /\ Count("Missing", NameASpace) = 1
    /\ Count("Deprecated", NameA) = 1

====
